---------------------------- MODULE Spec2Model ----------------------------
(* Five FastAPI user-management services, each over its own in-memory     *)
(* store: api_copilot_gpt, api_copilot_sonnet, api_cursor, api_gemini and *)
(* api_windsurf.  A run serves one of them (variable `variant`); every    *)
(* request handler is one action, except add_user of api_copilot_gpt,     *)
(* which is a plain `def` and therefore runs on the framework's worker    *)
(* threads: its uniqueness scan and its append are two steps there.       *)
EXTENDS Integers, Sequences, FiniteSets

VARIABLES
    variant,      \* which of the five applications is being served
    users,        \* api_copilot_gpt.users            (list of User)
    sonnet_db,    \* api_copilot_sonnet.users_db      (list of dict)
    cursor_db,    \* api_cursor.users_db              (dict id -> dict)
    gemini_db,    \* api_gemini.users_db              (dict id -> User)
    windsurf_db,  \* api_windsurf.users_db            (dict id -> dict)
    issued,       \* values uuid4() has returned so far
    now,          \* last value read from the clock (datetime.now())
    resp,         \* the response to the last request
    ledger,       \* client side: records as returned by Create, neither updated nor deleted since
    serial,       \* dispatcher: TRUE when a request runs to completion before the next starts
    pc,           \* api_copilot_gpt worker threads: position inside add_user
    req           \* api_copilot_gpt worker threads: the User being added

vars == <<variant, users, sonnet_db, cursor_db, gemini_db, windsurf_db,
          issued, now, resp, ledger, serial, pc, req>>

-----------------------------------------------------------------------------
(* Bounds *)
MaxUuid == 2        \* number of values uuid4() can return in a run
MaxId == 2          \* caller-supplied integer ids are 1..MaxId
MaxUsers == 3       \* api_copilot_gpt: the list holds at most MaxUsers records
MaxClock == 1       \* clock values are 0..MaxClock
MaxSent == 2        \* an update request sends at most MaxSent fields
NThreads == 2       \* worker threads serving api_copilot_gpt

UUIDs == 1..MaxUuid
Ids == 1..MaxId
Times == 0..MaxClock
Threads == 1..NThreads
Names == {"n1", "n2"}
Emails == {"e1", "e2"}
Passwords == {"pw"}
Ages == {30}
(* the stores without a uniqueness rule draw names and emails from one value *)
Name1 == {"n1"}
Email1 == {"e1"}

(* Python's None, and a present value v *)
None == <<>>
Some(v) == <<v>>
Opt(S) == {None} \cup {Some(v) : v \in S}

(* A field of an all-optional update model: not sent at all (Unset), or   *)
(* sent with a value that may be None.  dict(exclude_unset=True) keeps    *)
(* exactly the fields that were sent.                                     *)
Unset == <<>>
Sent(o) == <<o>>
Upd(S) == {Unset} \cup {Sent(o) : o \in Opt(S)}
(* {**stored, **update_data} for one key *)
Merge(old, u) == IF u = Unset THEN old ELSE u[1]
(* the update bodies that send at most MaxSent fields *)
AtMostSent(S, blank) ==
    {u \in S : Cardinality({f \in DOMAIN u : u[f] # blank}) <= MaxSent}

Variants == {"gpt", "sonnet", "cursor", "gemini", "windsurf"}

-----------------------------------------------------------------------------
(* A Python dict in insertion order: a sequence of (key, value) entries   *)
(* with pairwise distinct keys.                                           *)
Range(s) == {s[i] : i \in 1..Len(s)}
DictKeys(d) == {d[i].key : i \in 1..Len(d)}
DictHas(d, k) == k \in DictKeys(d)
DictIndex(d, k) == CHOOSE i \in 1..Len(d) : d[i].key = k
DictGet(d, k) == d[DictIndex(d, k)].value
DictSet(d, k, v) ==
    IF DictHas(d, k)
    THEN [d EXCEPT ![DictIndex(d, k)] = [key |-> k, value |-> v]]
    ELSE Append(d, [key |-> k, value |-> v])
(* del that drops the oldest entry instead of the entry of k *)
DictDelOldest(d, k) == SubSeq(d, 2, Len(d))
DictDel(d, k) ==
    LET i == DictIndex(d, k)
    IN  SubSeq(d, 1, i - 1) \o SubSeq(d, i + 1, Len(d))
DictValues(d) == [i \in 1..Len(d) |-> d[i].value]

(* pop() without its index: the last element goes *)
ListPopLast(l, i) == SubSeq(l, 1, Len(l) - 1)
(* list.pop(index) *)
ListPop(l, i) == SubSeq(l, 1, i - 1) \o SubSeq(l, i + 1, Len(l))

(* HTTP status codes *)
HTTP_200_OK == 200
HTTP_201_CREATED == 201
HTTP_204_NO_CONTENT == 204
HTTP_404_NOT_FOUND == 404
(* a conflict answered with the status of another error *)
HTTP_400_Swapped == HTTP_404_NOT_FOUND
HTTP_400_BAD_REQUEST == 400
HTTP_500_INTERNAL_SERVER_ERROR == 500

(* What a request is answered with: a body on success, and the detail of *)
(* the HTTPException (or of the failed response validation) otherwise.   *)
(* id is the id the request named or was given, 0 when there is none.    *)
Response(op, id, status, body) ==
    [op |-> op, id |-> id, status |-> status, body |-> body, error |-> ""]
Error(op, id, status, detail) ==
    [op |-> op, id |-> id, status |-> status, body |-> None, error |-> detail]

(* uuid.uuid4(): a value it has not returned before *)
Uuid4 == UUIDs \ issued

-----------------------------------------------------------------------------
(* the client's ledger of created records *)
LedgerPut(id, view) == {r \in ledger : r.id # id} \cup {view}
LedgerDrop(id) == {r \in ledger : r.id # id}

-----------------------------------------------------------------------------
(* api_copilot_gpt *)

GptUser == [id : Ids, name : Names, email : Emails]

(* a scan that compares whole records instead of ids *)
GptUserExists(user) == \E i \in 1..Len(users) : users[i] = user
(* any(u.id == user.id for u in users) *)
GptIdExists(user) == \E i \in 1..Len(users) : users[i].id = user.id

(* a request is taken up when the dispatcher allows it *)
Dispatch(t) ==
    /\ pc[t] = "idle"
    /\ serial => \A o \in Threads : pc[o] = "idle"

GptFrame ==
    UNCHANGED <<variant, sonnet_db, cursor_db, gemini_db, windsurf_db,
                issued, now, serial>>

(* add_user, first step: the uniqueness scan *)
GptAddUserScan(t, user) ==
    /\ variant = "gpt"
    /\ Dispatch(t)
    /\ IF GptIdExists(user)
       THEN /\ resp' = Error("create", user.id, HTTP_400_BAD_REQUEST,
                             "User with this ID already exists.")
            /\ UNCHANGED <<pc, req>>
       ELSE /\ Len(users) + Cardinality({o \in Threads : pc[o] = "append"}) < MaxUsers
            /\ pc' = [pc EXCEPT ![t] = "append"]
            /\ req' = [req EXCEPT ![t] = Some(user)]
            /\ UNCHANGED resp
    /\ UNCHANGED <<users, ledger>>
    /\ GptFrame

(* add_user, second step: users.append(user); return user *)
GptAddUserAppend(t) ==
    /\ variant = "gpt"
    /\ pc[t] = "append"
    /\ LET user == req[t][1]
       IN  /\ users' = Append(users, user)
           /\ resp' = Response("create", user.id, HTTP_200_OK, user)
           /\ ledger' = LedgerPut(user.id, user)
    /\ pc' = [pc EXCEPT ![t] = "idle"]
    /\ req' = [req EXCEPT ![t] = None]
    /\ GptFrame

(* enumerate(users): the first index whose record has this id *)
GptIndex(user_id) ==
    CHOOSE i \in 1..Len(users) :
        /\ users[i].id = user_id
        /\ \A j \in 1..(i - 1) : users[j].id # user_id

(* update_user: users[index] = updated_user, whatever id the body carries *)
GptUpdateUser(t, user_id, updated_user) ==
    /\ variant = "gpt"
    /\ Dispatch(t)
    /\ IF \E i \in 1..Len(users) : users[i].id = user_id
       THEN /\ users' = [users EXCEPT ![GptIndex(user_id)] = updated_user]
            /\ resp' = Response("update", user_id, HTTP_200_OK, updated_user)
            /\ ledger' = LedgerDrop(user_id)
       ELSE /\ resp' = Error("update", user_id, HTTP_404_NOT_FOUND, "User not found.")
            /\ UNCHANGED <<users, ledger>>
    /\ UNCHANGED <<pc, req>>
    /\ GptFrame

GptListUsers(t) ==
    /\ variant = "gpt"
    /\ Dispatch(t)
    /\ resp' = Response("list", 0, HTTP_200_OK, users)
    /\ UNCHANGED <<users, ledger, pc, req>>
    /\ GptFrame

-----------------------------------------------------------------------------
(* api_copilot_sonnet *)

SonnetUserCreate ==
    [name : Name1, email : Email1, age : Opt(Ages), is_active : BOOLEAN]
SonnetUserUpdate ==
    AtMostSent([name : Upd(Name1), email : Upd(Email1), age : Upd(Ages),
                is_active : Upd(BOOLEAN)], Unset)

(* response_model=UserResponse: name, email and is_active are required,  *)
(* age is Optional; a record that does not validate is a server error    *)
SonnetValid(u) == u.name # None /\ u.email # None /\ u.is_active # None
SonnetView(u) ==
    [id |-> u.id, name |-> u.name, email |-> u.email, age |-> u.age,
     is_active |-> u.is_active]

SonnetFrame ==
    UNCHANGED <<variant, users, cursor_db, gemini_db, windsurf_db, now,
                serial, pc, req>>

SonnetHas(user_id) == \E i \in 1..Len(sonnet_db) : sonnet_db[i].id = user_id
(* for index, user in enumerate(users_db): the first match *)
SonnetIndex(user_id) ==
    CHOOSE i \in 1..Len(sonnet_db) :
        /\ sonnet_db[i].id = user_id
        /\ \A j \in 1..(i - 1) : sonnet_db[j].id # user_id

(* {**user.dict(), "id": user_id} *)
SonnetUserWithId(user_id, user) ==
    [id |-> user_id, name |-> Some(user.name), email |-> Some(user.email),
     age |-> user.age, is_active |-> Some(user.is_active)]

SonnetCreateUser(user) ==
    /\ variant = "sonnet"
    /\ \E user_id \in Uuid4 :
          LET user_with_id == SonnetUserWithId(user_id, user)
          IN  /\ issued' = issued \cup {user_id}
              /\ sonnet_db' = Append(sonnet_db, user_with_id)
              /\ resp' = Response("create", user_id, HTTP_201_CREATED, SonnetView(user_with_id))
              /\ ledger' = LedgerPut(user_id, SonnetView(user_with_id))
    /\ SonnetFrame

SonnetListBody == [i \in 1..Len(sonnet_db) |-> SonnetView(sonnet_db[i])]

SonnetListUsers ==
    /\ variant = "sonnet"
    /\ IF \A i \in 1..Len(sonnet_db) : SonnetValid(sonnet_db[i])
       THEN resp' = Response("list", 0, HTTP_200_OK, SonnetListBody)
       ELSE resp' = Error("list", 0, HTTP_500_INTERNAL_SERVER_ERROR, "Internal Server Error")
    /\ UNCHANGED <<sonnet_db, issued, ledger>>
    /\ SonnetFrame

SonnetGetResponse(user_id) ==
    IF SonnetHas(user_id)
    THEN LET user == sonnet_db[SonnetIndex(user_id)]
         IN  IF SonnetValid(user)
             THEN Response("get", user_id, HTTP_200_OK, SonnetView(user))
             ELSE Error("get", user_id, HTTP_500_INTERNAL_SERVER_ERROR,
                        "Internal Server Error")
    ELSE Error("get", user_id, HTTP_404_NOT_FOUND, "User not found")

SonnetGetUser(user_id) ==
    /\ variant = "sonnet"
    /\ resp' = SonnetGetResponse(user_id)
    /\ UNCHANGED <<sonnet_db, issued, ledger>>
    /\ SonnetFrame

(* users_db[index] = {**user, **update_data} *)
SonnetMerge(user, user_update) ==
    [id |-> user.id,
     name |-> Merge(user.name, user_update.name),
     email |-> Merge(user.email, user_update.email),
     age |-> Merge(user.age, user_update.age),
     is_active |-> Merge(user.is_active, user_update.is_active)]

SonnetUpdateUser(user_id, user_update) ==
    /\ variant = "sonnet"
    /\ IF SonnetHas(user_id)
       THEN LET index == SonnetIndex(user_id)
                updated == SonnetMerge(sonnet_db[index], user_update)
            IN  /\ sonnet_db' = [sonnet_db EXCEPT ![index] = updated]
                /\ ledger' = LedgerDrop(user_id)
                /\ IF SonnetValid(updated)
                   THEN resp' = Response("update", user_id, HTTP_200_OK, SonnetView(updated))
                   ELSE resp' = Error("update", user_id, HTTP_500_INTERNAL_SERVER_ERROR,
                                      "Internal Server Error")
       ELSE /\ resp' = Error("update", user_id, HTTP_404_NOT_FOUND, "User not found")
            /\ UNCHANGED <<sonnet_db, ledger>>
    /\ UNCHANGED issued
    /\ SonnetFrame

SonnetDeleteUser(user_id) ==
    /\ variant = "sonnet"
    /\ IF SonnetHas(user_id)
       THEN /\ sonnet_db' = ListPop(sonnet_db, SonnetIndex(user_id))
            /\ resp' = Response("delete", user_id, HTTP_204_NO_CONTENT, None)
            /\ ledger' = LedgerDrop(user_id)
       ELSE /\ resp' = Error("delete", user_id, HTTP_404_NOT_FOUND, "User not found")
            /\ UNCHANGED <<sonnet_db, ledger>>
    /\ UNCHANGED issued
    /\ SonnetFrame

-----------------------------------------------------------------------------
(* api_cursor *)

CursorUserCreate ==
    [name : Name1, email : Email1, age : Opt(Ages), is_active : BOOLEAN,
     password : Passwords]
CursorUserUpdate ==
    AtMostSent([name : Upd(Name1), email : Upd(Email1), age : Upd(Ages),
                is_active : Upd(BOOLEAN), password : Upd(Passwords)], Unset)

(* response_model=UserResponse keeps id, name, email, age, is_active: the *)
(* "password" key of the returned dict is not a field of the model        *)
CursorValid(d) == d.name # None /\ d.email # None /\ d.is_active # None
CursorView(user_id, d) ==
    [id |-> user_id, name |-> d.name, email |-> d.email, age |-> d.age,
     is_active |-> d.is_active]

CursorFrame ==
    UNCHANGED <<variant, users, sonnet_db, gemini_db, windsurf_db, now,
                serial, pc, req>>

(* user.dict(): the password is stored too *)
CursorUserData(user) ==
    [name |-> Some(user.name), email |-> Some(user.email), age |-> user.age,
     is_active |-> Some(user.is_active), password |-> Some(user.password)]

(* a returned view that loses the age *)
CursorCreatedNoAge(user_data) ==
    [user_data EXCEPT !.password = None, !.age = None]
(* {**user_data, "id": user_id, "password": None} *)
CursorCreated(user_data) == [user_data EXCEPT !.password = None]

CursorCreateUser(user) ==
    /\ variant = "cursor"
    /\ \E user_id \in Uuid4 :
          LET user_data == CursorUserData(user)
              returned == CursorCreated(user_data)
          IN  /\ issued' = issued \cup {user_id}
              /\ cursor_db' = DictSet(cursor_db, user_id, user_data)
              /\ resp' = Response("create", user_id, HTTP_201_CREATED,
                                   CursorView(user_id, returned))
              /\ ledger' = LedgerPut(user_id, CursorView(user_id, returned))
    /\ CursorFrame

CursorListBody ==
    [i \in 1..Len(cursor_db) |-> CursorView(cursor_db[i].key, cursor_db[i].value)]

CursorListUsers ==
    /\ variant = "cursor"
    /\ IF \A i \in 1..Len(cursor_db) : CursorValid(cursor_db[i].value)
       THEN resp' = Response("list", 0, HTTP_200_OK, CursorListBody)
       ELSE resp' = Error("list", 0, HTTP_500_INTERNAL_SERVER_ERROR, "Internal Server Error")
    /\ UNCHANGED <<cursor_db, issued, ledger>>
    /\ CursorFrame

CursorGetResponse(user_id) ==
    IF ~DictHas(cursor_db, user_id)
    THEN Error("get", user_id, HTTP_404_NOT_FOUND, "User not found")
    ELSE LET user_data == DictGet(cursor_db, user_id)
         IN  IF CursorValid(user_data)
             THEN Response("get", user_id, HTTP_200_OK,
                           CursorView(user_id, [user_data EXCEPT !.password = None]))
             ELSE Error("get", user_id, HTTP_500_INTERNAL_SERVER_ERROR,
                        "Internal Server Error")

CursorGetUser(user_id) ==
    /\ variant = "cursor"
    /\ resp' = CursorGetResponse(user_id)
    /\ UNCHANGED <<cursor_db, issued, ledger>>
    /\ CursorFrame

(* updated_user = {**stored_user, **update_data} *)
CursorMerge(stored_user, user_update) ==
    [name |-> Merge(stored_user.name, user_update.name),
     email |-> Merge(stored_user.email, user_update.email),
     age |-> Merge(stored_user.age, user_update.age),
     is_active |-> Merge(stored_user.is_active, user_update.is_active),
     password |-> Merge(stored_user.password, user_update.password)]

CursorUpdateUser(user_id, user_update) ==
    /\ variant = "cursor"
    /\ IF ~DictHas(cursor_db, user_id)
       THEN /\ resp' = Error("update", user_id, HTTP_404_NOT_FOUND, "User not found")
            /\ UNCHANGED <<cursor_db, ledger>>
       ELSE LET updated_user == CursorMerge(DictGet(cursor_db, user_id), user_update)
            IN  /\ cursor_db' = DictSet(cursor_db, user_id, updated_user)
                /\ ledger' = LedgerDrop(user_id)
                /\ IF CursorValid(updated_user)
                   THEN resp' = Response("update", user_id, HTTP_200_OK,
                                         CursorView(user_id, updated_user))
                   ELSE resp' = Error("update", user_id, HTTP_500_INTERNAL_SERVER_ERROR,
                                      "Internal Server Error")
    /\ UNCHANGED issued
    /\ CursorFrame

CursorDeleteUser(user_id) ==
    /\ variant = "cursor"
    /\ IF ~DictHas(cursor_db, user_id)
       THEN /\ resp' = Error("delete", user_id, HTTP_404_NOT_FOUND, "User not found")
            /\ UNCHANGED <<cursor_db, ledger>>
       ELSE /\ cursor_db' = DictDel(cursor_db, user_id)
            /\ resp' = Response("delete", user_id, HTTP_204_NO_CONTENT, None)
            /\ ledger' = LedgerDrop(user_id)
    /\ UNCHANGED issued
    /\ CursorFrame

-----------------------------------------------------------------------------
(* api_gemini *)

LastNames == {"l1"}
GeminiUserCreate == [first_name : Name1, last_name : LastNames, email : Email1]
GeminiUserUpdate ==
    AtMostSent([first_name : Upd(Name1), last_name : Upd(LastNames),
                email : Upd(Email1)], Unset)

(* response_model=User: every field is a required str.  model_copy does  *)
(* not validate, so the store can hold None; the response then does not  *)
(* validate and the request is answered with a server error              *)
GeminiValid(u) == u.first_name # None /\ u.last_name # None /\ u.email # None

GeminiFrame ==
    UNCHANGED <<variant, users, sonnet_db, cursor_db, windsurf_db, now,
                serial, pc, req>>

(* User(id=user_id, **user_create.model_dump()) *)
GeminiNewUser(user_id, user_create) ==
    [id |-> user_id, first_name |-> Some(user_create.first_name),
     last_name |-> Some(user_create.last_name),
     email |-> Some(user_create.email)]

GeminiCreateUser(user_create) ==
    /\ variant = "gemini"
    /\ \E user_id \in Uuid4 :
          LET new_user == GeminiNewUser(user_id, user_create)
          IN  /\ issued' = issued \cup {user_id}
              /\ gemini_db' = DictSet(gemini_db, user_id, new_user)
              /\ resp' = Response("create", user_id, HTTP_201_CREATED, new_user)
              /\ ledger' = LedgerPut(user_id, new_user)
    /\ GeminiFrame

GeminiListUsers ==
    /\ variant = "gemini"
    /\ IF \A i \in 1..Len(gemini_db) : GeminiValid(gemini_db[i].value)
       THEN resp' = Response("list", 0, HTTP_200_OK, DictValues(gemini_db))
       ELSE resp' = Error("list", 0, HTTP_500_INTERNAL_SERVER_ERROR, "Internal Server Error")
    /\ UNCHANGED <<gemini_db, issued, ledger>>
    /\ GeminiFrame

GeminiGetResponse(user_id) ==
    IF ~DictHas(gemini_db, user_id)
    THEN Error("get", user_id, HTTP_404_NOT_FOUND, "User not found")
    ELSE LET user == DictGet(gemini_db, user_id)
         IN  IF GeminiValid(user)
             THEN Response("get", user_id, HTTP_200_OK, user)
             ELSE Error("get", user_id, HTTP_500_INTERNAL_SERVER_ERROR,
                        "Internal Server Error")

GeminiGetUser(user_id) ==
    /\ variant = "gemini"
    /\ resp' = GeminiGetResponse(user_id)
    /\ UNCHANGED <<gemini_db, issued, ledger>>
    /\ GeminiFrame

(* existing_user.model_copy(update=user_update.model_dump(exclude_unset=True)) *)
GeminiCopy(existing_user, user_update) ==
    [id |-> existing_user.id,
     first_name |-> Merge(existing_user.first_name, user_update.first_name),
     last_name |-> Merge(existing_user.last_name, user_update.last_name),
     email |-> Merge(existing_user.email, user_update.email)]

GeminiUpdateUser(user_id, user_update) ==
    /\ variant = "gemini"
    /\ IF ~DictHas(gemini_db, user_id)
       THEN /\ resp' = Error("update", user_id, HTTP_404_NOT_FOUND, "User not found")
            /\ UNCHANGED <<gemini_db, ledger>>
       ELSE LET updated_user == GeminiCopy(DictGet(gemini_db, user_id), user_update)
            IN  /\ gemini_db' = DictSet(gemini_db, user_id, updated_user)
                /\ ledger' = LedgerDrop(user_id)
                /\ IF GeminiValid(updated_user)
                   THEN resp' = Response("update", user_id, HTTP_200_OK, updated_user)
                   ELSE resp' = Error("update", user_id, HTTP_500_INTERNAL_SERVER_ERROR,
                                      "Internal Server Error")
    /\ UNCHANGED issued
    /\ GeminiFrame

GeminiDeleteUser(user_id) ==
    /\ variant = "gemini"
    /\ IF ~DictHas(gemini_db, user_id)
       THEN /\ resp' = Error("delete", user_id, HTTP_404_NOT_FOUND, "User not found")
            /\ UNCHANGED <<gemini_db, ledger>>
       ELSE /\ gemini_db' = DictDel(gemini_db, user_id)
            /\ resp' = Response("delete", user_id, HTTP_204_NO_CONTENT, None)
            /\ ledger' = LedgerDrop(user_id)
    /\ UNCHANGED issued
    /\ GeminiFrame

-----------------------------------------------------------------------------
(* api_windsurf *)

WindsurfUserCreate ==
    [name : Names, email : Emails, active : BOOLEAN, password : Passwords]
(* every field of UserUpdate defaults to None and the handler tests      *)
(* `is not None`, so a field that was not sent and a null one are alike  *)
WindsurfUserUpdate ==
    AtMostSent([name : Opt(Names), email : Opt(Emails), active : Opt(BOOLEAN),
                password : Opt(Passwords)], None)

(* response_model=User: id, name, email, active, created_at, updated_at *)
WindsurfView(u) ==
    [id |-> u.id, name |-> u.name, email |-> u.email, active |-> u.active,
     created_at |-> u.created_at, updated_at |-> u.updated_at]

WindsurfFrame ==
    UNCHANGED <<variant, users, sonnet_db, cursor_db, gemini_db, serial, pc, req>>

(* for existing_user in users_db.values(): existing_user["email"] == user.email *)
WindsurfEmailExists(email) ==
    \E i \in 1..Len(windsurf_db) : windsurf_db[i].value.email = email

(* a scan with the id test inverted: uid == user_id *)
WindsurfEmailTakenSelf(user_id, email) ==
    \E i \in 1..Len(windsurf_db) :
        /\ windsurf_db[i].key = user_id
        /\ windsurf_db[i].value.email = email
(* for uid, existing_user in users_db.items():                            *)
(*     uid != user_id and existing_user["email"] == user_update.email     *)
WindsurfEmailTaken(user_id, email) ==
    \E i \in 1..Len(windsurf_db) :
        /\ windsurf_db[i].key # user_id
        /\ windsurf_db[i].value.email = email

(* get_current_time(): datetime.now(), read as never running backwards *)
ClockReads == now..MaxClock

WindsurfNewUser(user_id, user, current_time) ==
    [id |-> user_id, name |-> user.name, email |-> user.email,
     active |-> user.active, created_at |-> current_time,
     updated_at |-> current_time]

WindsurfCreateUser(user) ==
    /\ variant = "windsurf"
    /\ IF WindsurfEmailExists(user.email)
       THEN /\ resp' = Error("create", 0, HTTP_400_BAD_REQUEST, "Email already registered")
            /\ UNCHANGED <<windsurf_db, issued, now, ledger>>
       ELSE \E user_id \in Uuid4, current_time \in ClockReads :
                LET new_user == WindsurfNewUser(user_id, user, current_time)
                IN  /\ issued' = issued \cup {user_id}
                    /\ now' = current_time
                    /\ windsurf_db' = DictSet(windsurf_db, user_id, new_user)
                    /\ resp' = Response("create", user_id, HTTP_201_CREATED, WindsurfView(new_user))
                    /\ ledger' = LedgerPut(user_id, WindsurfView(new_user))
    /\ WindsurfFrame

WindsurfListBody ==
    [i \in 1..Len(windsurf_db) |-> WindsurfView(windsurf_db[i].value)]

WindsurfListUsers ==
    /\ variant = "windsurf"
    /\ resp' = Response("list", 0, HTTP_200_OK, WindsurfListBody)
    /\ UNCHANGED <<windsurf_db, issued, now, ledger>>
    /\ WindsurfFrame

WindsurfGetResponse(user_id) ==
    IF ~DictHas(windsurf_db, user_id)
    THEN Error("get", user_id, HTTP_404_NOT_FOUND, "User not found")
    ELSE Response("get", user_id, HTTP_200_OK,
                  WindsurfView(DictGet(windsurf_db, user_id)))

WindsurfGetUser(user_id) ==
    /\ variant = "windsurf"
    /\ resp' = WindsurfGetResponse(user_id)
    /\ UNCHANGED <<windsurf_db, issued, now, ledger>>
    /\ WindsurfFrame

(* user_data is the stored dict itself, written in place in source order: *)
(* name first, then the email scan, which may raise with name written     *)
WindsurfSetName(user_data, user_update) ==
    IF user_update.name # None
    THEN [user_data EXCEPT !.name = user_update.name[1]]
    ELSE user_data

WindsurfEmailConflict(user_id, user_update) ==
    /\ user_update.email # None
    /\ WindsurfEmailTaken(user_id, user_update.email[1])

(* the writes after the scan without the timestamp refresh *)
WindsurfSetRestStale(d1, user_update, current_time) ==
    LET d2 == IF user_update.email # None
              THEN [d1 EXCEPT !.email = user_update.email[1]]
              ELSE d1
    IN  IF user_update.active # None
        THEN [d2 EXCEPT !.active = user_update.active[1]]
        ELSE d2
(* the writes after the scan: email, active, updated_at *)
WindsurfSetRest(d1, user_update, current_time) ==
    LET d2 == IF user_update.email # None
              THEN [d1 EXCEPT !.email = user_update.email[1]]
              ELSE d1
        d3 == IF user_update.active # None
              THEN [d2 EXCEPT !.active = user_update.active[1]]
              ELSE d2
    IN  [d3 EXCEPT !.updated_at = current_time]

WindsurfUpdateUser(user_id, user_update) ==
    /\ variant = "windsurf"
    /\ IF ~DictHas(windsurf_db, user_id)
       THEN /\ resp' = Error("update", user_id, HTTP_404_NOT_FOUND, "User not found")
            /\ UNCHANGED <<windsurf_db, now, ledger>>
       ELSE LET d1 == WindsurfSetName(DictGet(windsurf_db, user_id), user_update)
            IN  IF WindsurfEmailConflict(user_id, user_update)
                THEN /\ windsurf_db' = DictSet(windsurf_db, user_id, d1)
                     /\ resp' = Error("update", user_id, HTTP_400_BAD_REQUEST,
                                   "Email already registered")
                     /\ ledger' = LedgerDrop(user_id)
                     /\ UNCHANGED now
                ELSE \E current_time \in ClockReads :
                        LET user_data == WindsurfSetRest(d1, user_update, current_time)
                        IN  /\ now' = current_time
                            /\ windsurf_db' = DictSet(windsurf_db, user_id, user_data)
                            /\ resp' = Response("update", user_id, HTTP_200_OK,
                                                WindsurfView(user_data))
                            /\ ledger' = LedgerDrop(user_id)
    /\ UNCHANGED issued
    /\ WindsurfFrame

WindsurfDeleteUser(user_id) ==
    /\ variant = "windsurf"
    /\ IF ~DictHas(windsurf_db, user_id)
       THEN /\ resp' = Error("delete", user_id, HTTP_404_NOT_FOUND, "User not found")
            /\ UNCHANGED <<windsurf_db, ledger>>
       ELSE /\ windsurf_db' = DictDel(windsurf_db, user_id)
            /\ resp' = Response("delete", user_id, HTTP_204_NO_CONTENT, None)
            /\ ledger' = LedgerDrop(user_id)
    /\ UNCHANGED <<issued, now>>
    /\ WindsurfFrame

-----------------------------------------------------------------------------
(* Every store is empty at startup. *)
InitStores ==
    /\ users = <<>>
    /\ sonnet_db = <<>>
    /\ cursor_db = <<>>
    /\ gemini_db = <<>>
    /\ windsurf_db = <<>>
    /\ issued = {}
    /\ now = 0
    /\ resp = Response("none", 0, 0, None)
    /\ ledger = {}
    /\ pc = [t \in Threads |-> "idle"]
    /\ req = [t \in Threads |-> None]

(* Requests are handled one at a time. *)
Init ==
    /\ variant \in Variants
    /\ serial = TRUE
    /\ InitStores

Creates ==
    \/ \E t \in Threads, user \in GptUser : GptAddUserScan(t, user)
    \/ \E t \in Threads : GptAddUserAppend(t)
    \/ \E user \in SonnetUserCreate : SonnetCreateUser(user)
    \/ \E user \in CursorUserCreate : CursorCreateUser(user)
    \/ \E user_create \in GeminiUserCreate : GeminiCreateUser(user_create)
    \/ \E user \in WindsurfUserCreate : WindsurfCreateUser(user)

Reads ==
    \/ \E t \in Threads : GptListUsers(t)
    \/ SonnetListUsers
    \/ CursorListUsers
    \/ GeminiListUsers
    \/ WindsurfListUsers
    \/ \E user_id \in UUIDs : SonnetGetUser(user_id)
    \/ \E user_id \in UUIDs : CursorGetUser(user_id)
    \/ \E user_id \in UUIDs : GeminiGetUser(user_id)
    \/ \E user_id \in UUIDs : WindsurfGetUser(user_id)

Updates ==
    \/ \E t \in Threads, user_id \in Ids, updated_user \in GptUser :
           GptUpdateUser(t, user_id, updated_user)
    \/ \E user_id \in UUIDs, user_update \in SonnetUserUpdate :
           SonnetUpdateUser(user_id, user_update)
    \/ \E user_id \in UUIDs, user_update \in CursorUserUpdate :
           CursorUpdateUser(user_id, user_update)
    \/ \E user_id \in UUIDs, user_update \in GeminiUserUpdate :
           GeminiUpdateUser(user_id, user_update)
    \/ \E user_id \in UUIDs, user_update \in WindsurfUserUpdate :
           WindsurfUpdateUser(user_id, user_update)

Deletes ==
    \/ \E user_id \in UUIDs : SonnetDeleteUser(user_id)
    \/ \E user_id \in UUIDs : CursorDeleteUser(user_id)
    \/ \E user_id \in UUIDs : GeminiDeleteUser(user_id)
    \/ \E user_id \in UUIDs : WindsurfDeleteUser(user_id)

Next == Creates \/ Reads \/ Updates \/ Deletes

Spec == Init /\ [][Next]_vars

(* Creates, Deletes and reads only: no record is updated. *)
NextCD == Creates \/ Reads \/ Deletes

SpecCD == Init /\ [][NextCD]_vars

(* api_copilot_gpt receiving Create requests on its worker threads,      *)
(* dispatched either one at a time or concurrently.                      *)
InitConc ==
    /\ variant = "gpt"
    /\ serial \in BOOLEAN
    /\ InitStores

NextConc ==
    \/ \E t \in Threads, user \in GptUser : GptAddUserScan(t, user)
    \/ \E t \in Threads : GptAddUserAppend(t)
    \/ \E t \in Threads : GptListUsers(t)

SpecConc == InitConc /\ [][NextConc]_vars

-----------------------------------------------------------------------------
(* Properties *)

Stores == <<users, sonnet_db, cursor_db, gemini_db, windsurf_db>>
UuidVariants == {"sonnet", "cursor", "gemini", "windsurf"}

(* the ids of the records a store holds, in store order *)
StoreIds ==
    CASE variant = "gpt" -> [i \in 1..Len(users) |-> users[i].id]
      [] variant = "sonnet" -> [i \in 1..Len(sonnet_db) |-> sonnet_db[i].id]
      [] variant = "cursor" -> [i \in 1..Len(cursor_db) |-> cursor_db[i].key]
      [] variant = "gemini" -> [i \in 1..Len(gemini_db) |-> gemini_db[i].key]
      [] OTHER -> [i \in 1..Len(windsurf_db) |-> windsurf_db[i].key]
Live(id) == id \in Range(StoreIds)
Distinct(s) == \A i, j \in 1..Len(s) : s[i] = s[j] => i = j

WindsurfEmails == [i \in 1..Len(windsurf_db) |-> windsurf_db[i].value.email]

(* C1 (as stated): in api_windsurf an Update that is refused because its  *)
(* email belongs to another record leaves the whole store as it was.      *)
C1_ConflictWritesNothing ==
    [][(variant = "windsurf" /\ resp'.op = "update"
          /\ resp'.error = "Email already registered")
       => windsurf_db' = windsurf_db]_vars

(* C2: in api_windsurf, with requests handled one at a time, no two live  *)
(* records ever share an email; a Create that succeeds brought an email   *)
(* no live record had and added one record, and a refused Create left the *)
(* store as it was.                                                       *)
C2_EmailUnique ==
    /\ [](variant = "windsurf" => Distinct(WindsurfEmails))
    /\ [][(variant = "windsurf" /\ resp'.op = "create")
          => IF resp'.status = HTTP_201_CREATED
             THEN /\ resp'.body.email \notin Range(WindsurfEmails)
                  /\ Len(windsurf_db') = Len(windsurf_db) + 1
             ELSE /\ resp'.error = "Email already registered"
                  /\ windsurf_db' = windsurf_db]_vars

(* a Create was refused for its email while two records were live *)
C2_Witness ==
    /\ variant = "windsurf"
    /\ resp.op = "create"
    /\ resp.error = "Email already registered"
    /\ Len(windsurf_db) = 2

(* C3 (as stated): in every variant no two live records have the same id, *)
(* and an Update on path id k leaves a record whose id is k.              *)
C3_IdUniqueImmutable ==
    /\ Distinct(StoreIds)
    /\ (resp.op = "update" /\ resp.status = HTTP_200_OK)
          => (resp.body.id = resp.id /\ Live(resp.id))

(* What C4 takes an Update to do to one field: a value that was sent and *)
(* is not null replaces the stored one, anything else keeps it.          *)
ClaimedField(old, u) == IF u # Unset /\ u[1] # None THEN u[1] ELSE old
ClaimedSonnet(d, u) ==
    [id |-> d.id, name |-> ClaimedField(d.name, u.name),
     email |-> ClaimedField(d.email, u.email),
     age |-> ClaimedField(d.age, u.age),
     is_active |-> ClaimedField(d.is_active, u.is_active)]
ClaimedCursor(d, u) ==
    [name |-> ClaimedField(d.name, u.name),
     email |-> ClaimedField(d.email, u.email),
     age |-> ClaimedField(d.age, u.age),
     is_active |-> ClaimedField(d.is_active, u.is_active),
     password |-> ClaimedField(d.password, u.password)]
ClaimedGemini(d, u) ==
    [id |-> d.id, first_name |-> ClaimedField(d.first_name, u.first_name),
     last_name |-> ClaimedField(d.last_name, u.last_name),
     email |-> ClaimedField(d.email, u.email)]
ClaimedWindsurf(d, u, t) ==
    [id |-> d.id, name |-> IF u.name # None THEN u.name[1] ELSE d.name,
     email |-> IF u.email # None THEN u.email[1] ELSE d.email,
     active |-> IF u.active # None THEN u.active[1] ELSE d.active,
     created_at |-> d.created_at, updated_at |-> t]

(* C4 (as stated), one step: in the variants with an all-optional update model a   *)
(* successful Update is, for some partial_input, the step that overwrites *)
(* exactly the fields sent with a non-null value, keeps every omitted or  *)
(* null field, and changes no other record.                               *)
PartialUpdateStep ==
    (variant \in UuidVariants /\ resp'.op = "update"
          /\ resp'.status = HTTP_200_OK)
       => CASE variant = "sonnet" ->
                 \E u \in SonnetUserUpdate :
                    LET i == SonnetIndex(resp'.id)
                    IN  sonnet_db' = [sonnet_db EXCEPT
                                        ![i] = ClaimedSonnet(sonnet_db[i], u)]
            [] variant = "cursor" ->
                 \E u \in CursorUserUpdate :
                    cursor_db' = DictSet(cursor_db, resp'.id,
                                    ClaimedCursor(DictGet(cursor_db, resp'.id), u))
            [] variant = "gemini" ->
                 \E u \in GeminiUserUpdate :
                    gemini_db' = DictSet(gemini_db, resp'.id,
                                    ClaimedGemini(DictGet(gemini_db, resp'.id), u))
            [] OTHER ->
                 \E u \in WindsurfUserUpdate, t \in Times :
                    windsurf_db' = DictSet(windsurf_db, resp'.id,
                                      ClaimedWindsurf(DictGet(windsurf_db, resp'.id), u, t))

C4_PartialUpdate == [][PartialUpdateStep]_vars

NotFoundDetails == {"User not found", "User not found."}
ConflictDetails == {"User with this ID already exists.", "Email already registered"}

(* C5 (as stated): a request on an unknown id is answered 404, and a     *)
(* duplicate-id or duplicate-email conflict is answered 409.             *)
C5_ConflictIs409 ==
    /\ resp.error \in NotFoundDetails => resp.status = 404
    /\ resp.error \in ConflictDetails => resp.status = 409

(* C5 (amended): a Get, Update or Delete is answered 404 exactly when its *)
(* id is not the id of a live record, and a duplicate-id Create           *)
(* (api_copilot_gpt) or duplicate-email Create or Update (api_windsurf)   *)
(* is always answered 400.                                                *)
C5_StatusCodes ==
    /\ [](/\ resp.error \in NotFoundDetails <=> resp.status = 404
          /\ resp.error \in ConflictDetails <=> resp.status = 400)
    /\ [][(pc' = pc /\ resp'.op \in {"get", "update", "delete"})
          => (resp'.status = 404 <=> ~Live(resp'.id))]_vars

(* an Update was refused for its email *)
C5_Witness ==
    /\ variant = "windsurf"
    /\ resp.op = "update"
    /\ resp.error = "Email already registered"
    /\ resp.status = 400

(* C6, one step: where Delete exists, a successful Delete removes the record; from  *)
(* then on the id is never live again, a further Delete of it is answered *)
(* 404 and changes no store, and a Get of it is answered 404, whatever    *)
(* requests (Creates included) come in between.                           *)
DeleteStep ==
    variant \in UuidVariants =>
         /\ \A id \in UUIDs :
               (resp'.op = "delete" /\ resp'.status = 204 /\ resp'.id = id)
                  => (Live(id) /\ ~Live(id)')
         /\ \A id \in issued :
               ~Live(id) =>
                  /\ ~Live(id)'
                  /\ (resp'.op = "delete" /\ resp'.id = id)
                        => (resp'.status = 404 /\ Stores' = Stores)
                  /\ (resp'.op = "get" /\ resp'.id = id) => resp'.status = 404

C6_DeletedStaysGone == [][DeleteStep]_vars

(* a Delete of an id deleted before is refused, after a later Create *)
C6_Witness ==
    /\ variant \in UuidVariants
    /\ resp.op = "delete"
    /\ resp.status = 404
    /\ resp.id \in issued
    /\ \E id \in issued : id # resp.id /\ Live(id)

(* what List answers with *)
ListBody ==
    CASE variant = "gpt" -> users
      [] variant = "sonnet" -> SonnetListBody
      [] variant = "cursor" -> CursorListBody
      [] variant = "gemini" -> DictValues(gemini_db)
      [] OTHER -> WindsurfListBody

(* C7: after any sequence of Creates and Deletes, List answers with       *)
(* exactly the records that were created and not deleted since, each      *)
(* once, hence with the empty sequence when all were deleted; List and    *)
(* Get change no store.                                                   *)
C7_ListExact ==
    /\ [](/\ Range(ListBody) = ledger
          /\ Len(ListBody) = Cardinality(ledger)
          /\ resp.op = "list" => (resp.status = 200 /\ resp.body = ListBody))
    /\ [][(pc' = pc /\ resp'.op \in {"list", "get"}) => Stores' = Stores]_vars

(* every id was used, every record deleted again, and List answers empty *)
C7_Witness ==
    /\ variant \in UuidVariants
    /\ issued = UUIDs
    /\ resp.op = "list"
    /\ resp.body = <<>>

(* what Get answers with *)
GetResponse(user_id) ==
    CASE variant = "sonnet" -> SonnetGetResponse(user_id)
      [] variant = "cursor" -> CursorGetResponse(user_id)
      [] variant = "gemini" -> GeminiGetResponse(user_id)
      [] OTHER -> WindsurfGetResponse(user_id)

(* C8: right after a Create, Get of the new id answers 200 with a record  *)
(* equal field by field to the record the Create returned; that record    *)
(* carries the id and no password.                                        *)
C8_GetAfterCreate ==
    (variant \in UuidVariants /\ resp.op = "create" /\ resp.status = 201)
       => /\ GetResponse(resp.id).status = 200
          /\ GetResponse(resp.id).body = resp.body
          /\ resp.body.id = resp.id
          /\ "password" \notin DOMAIN resp.body

(* a record was created in api_cursor next to an existing one *)
C8_Witness ==
    /\ variant = "cursor"
    /\ resp.op = "create"
    /\ resp.status = 201
    /\ Len(cursor_db) = 2

(* one step of api_windsurf and its timestamps *)
TimestampStep ==
    variant = "windsurf" =>
       /\ \A id \in UUIDs :
             (DictHas(windsurf_db, id) /\ DictHas(windsurf_db', id))
                => DictGet(windsurf_db', id).created_at
                      = DictGet(windsurf_db, id).created_at
       /\ (resp'.op = "create" /\ resp'.status = 201)
             => /\ DictGet(windsurf_db', resp'.id).created_at = now'
                /\ DictGet(windsurf_db', resp'.id).updated_at = now'
       /\ (resp'.op = "update" /\ resp'.status = 200)
             => DictGet(windsurf_db', resp'.id).updated_at = now'

(* C9: in api_windsurf, with a clock that never runs backwards, Create    *)
(* sets created_at and updated_at to the one clock value it read,         *)
(* created_at never changes afterwards, a successful Update sets          *)
(* updated_at to the clock value it read, and updated_at >= created_at    *)
(* for every live record.                                                 *)
C9_Timestamps ==
    /\ [](variant = "windsurf" =>
            \A i \in 1..Len(windsurf_db) :
               windsurf_db[i].value.created_at <= windsurf_db[i].value.updated_at)
    /\ [][TimestampStep]_vars

(* a record was updated at a later clock value than it was created at *)
C9_Witness ==
    /\ variant = "windsurf"
    /\ resp.op = "update"
    /\ resp.status = 200
    /\ resp.body.updated_at > resp.body.created_at

=============================================================================
